---------------------------- MODULE Spec2Model ----------------------------
(***************************************************************************)
(* A model of libpdb: the fixed-column PDB record decoder (read.rs), the   *)
(* encoder (save.rs), the entity model (structs/atom.rs, structs/pdb.rs)   *)
(* and the validator (validator.rs).                                       *)
(*                                                                         *)
(* Text is a sequence of code points (a Rust String / Vec<char>), so that  *)
(* column slicing, padding, trimming and the character-class check are     *)
(* computed on the characters.  An f64 is the exact decimal it was written *)
(* as: a sign, its significant digits and the position of the decimal      *)
(* point (value = 0.d1 d2 ... dn * 10^pt), or an infinity, or NaN.         *)
(***************************************************************************)
EXTENDS Integers, Sequences, FiniteSets, TLC

VARIABLES
    mode,       \* which entry point of the library the run exercises
    atom,       \* the Atom a caller holds (Option<Atom>)
    op,         \* the last operation called, with its arguments
    res,        \* what the last operation returned
    pdb,        \* the Structure a caller builds, or that read returned
    input,      \* the lines handed to read_pdb_raw, or the line handed to parse_line
    line_no,    \* the line number handed to parse_line
    stream,     \* the lines save_pdb_raw wrote (without their newline)
    raw,        \* the lines save_pdb_raw handed to write_line
    atoms_only, \* the atom_only argument of the last save_pdb_raw
    reread      \* the result of reading `stream` back

vars == <<mode, atom, op, res, pdb, input, line_no, stream, raw, atoms_only, reread>>

----------------------------------------------------------------------------
(* Text helpers: Rust's str / char methods the code calls.                 *)

\* char::is_whitespace: the Unicode White_Space code points
is_whitespace(c) ==
    \/ c \in 9..13
    \/ c \in {32, 133, 160, 5760, 8232, 8233, 8239, 8287, 12288}
    \/ c \in 8192..8202

\* char::is_ascii_digit
is_ascii_digit(c) == c \in 48..57

\* str::len counts UTF-8 bytes, not characters
utf8_len(c) == IF c < 128 THEN 1 ELSE IF c < 2048 THEN 2 ELSE IF c < 65536 THEN 3 ELSE 4

RECURSIVE byte_len(_)
byte_len(s) == IF s = <<>> THEN 0 ELSE utf8_len(Head(s)) + byte_len(Tail(s))

\* str::trim
trim(s) ==
    LET keep == {i \in 1..Len(s) : ~is_whitespace(s[i])} IN
    IF keep = {} THEN <<>>
    ELSE SubSeq(s, CHOOSE i \in keep : \A j \in keep : i <= j,
                   CHOOSE i \in keep : \A j \in keep : i >= j)

\* str::trim_end
trim_end(s) ==
    LET keep == {i \in 1..Len(s) : ~is_whitespace(s[i])} IN
    IF keep = {} THEN <<>>
    ELSE SubSeq(s, 1, CHOOSE i \in keep : \A j \in keep : i >= j)

\* str::to_ascii_uppercase
to_ascii_uppercase(s) ==
    [i \in 1..Len(s) |-> IF s[i] \in 97..122 THEN s[i] - 32 ELSE s[i]]

\* str::to_ascii_lowercase (f64::from_str compares "inf"/"nan" case-insensitively)
to_ascii_lowercase(s) ==
    [i \in 1..Len(s) |-> IF s[i] \in 65..90 THEN s[i] + 32 ELSE s[i]]

\* .split_whitespace().collect::<String>(): every whitespace character removed
RECURSIVE strip_whitespace(_)
strip_whitespace(s) ==
    IF s = <<>> THEN <<>>
    ELSE IF is_whitespace(Head(s)) THEN strip_whitespace(Tail(s))
    ELSE <<Head(s)>> \o strip_whitespace(Tail(s))

\* n copies of character c
repeat(c, n) == [i \in 1..n |-> c]

\* chars[a..b] of Rust (0-based, end-exclusive) on a 1-based sequence
slice(s, a, b) == SubSeq(s, a + 1, b)

\* format!("{:w}") of a string or "{:<w}": left-justified, never truncated
pad_right(s, w) == IF Len(s) >= w THEN s ELSE s \o repeat(32, w - Len(s))

\* format!("{:>w}"), and "{:w}" of a number: right-justified, never truncated
pad_left(s, w) == IF Len(s) >= w THEN s ELSE repeat(32, w - Len(s)) \o s

\* format!("{:^w}"): centred, the odd padding character on the right
pad_center(s, w) ==
    IF Len(s) >= w THEN s
    ELSE LET p == w - Len(s) IN
         repeat(32, p \div 2) \o s \o repeat(32, p - (p \div 2))

\* Option<T>
None == [some |-> FALSE, v |-> <<>>]
Some(x) == [some |-> TRUE, v |-> x]

----------------------------------------------------------------------------
(* validator.rs                                                            *)

check_char(c) == c < 127 /\ c > 31

valid_identifier(text) == \A i \in 1..Len(text) : check_char(text[i])

prepare_identifier(text) ==
    IF valid_identifier(text) /\ trim(text) # <<>>
    THEN Some(to_ascii_uppercase(trim(text)))
    ELSE None

----------------------------------------------------------------------------
(* Numbers.  Result<T>: Ok(v) or Err.                                      *)

Ok(x) == [ok |-> TRUE, v |-> x]
Err == [ok |-> FALSE, v |-> <<>>]

\* the value of a sequence of digit characters
RECURSIVE digits_value(_)
digits_value(ds) ==
    IF ds = <<>> THEN 0
    ELSE 10 * digits_value(SubSeq(ds, 1, Len(ds) - 1)) + (ds[Len(ds)] - 48)

\* the decimal digits (as numbers 0..9) of a natural number
RECURSIVE digits_of(_)
digits_of(n) == IF n < 10 THEN <<n>> ELSE digits_of(n \div 10) \o <<n % 10>>

to_chars(ds) == [i \in 1..Len(ds) |-> ds[i] + 48]

\* format!("{}") of a usize
fmt_usize(n) == to_chars(digits_of(n))

\* format!("{}") of an isize
fmt_isize(n) == IF n < 0 THEN <<45>> \o to_chars(digits_of(-n)) ELSE to_chars(digits_of(n))

\* str::parse::<usize>: an optional '+', then one or more digits
usize_from_str(s) ==
    LET body == IF s # <<>> /\ s[1] = 43 THEN Tail(s) ELSE s IN
    IF body # <<>> /\ \A i \in 1..Len(body) : is_ascii_digit(body[i])
    THEN Ok(digits_value(body))
    ELSE Err

\* read.rs parse_usize: whitespace removed everywhere, then parsed
parse_usize(in) == usize_from_str(strip_whitespace(in))

(* f64 values *)
NaN == [k |-> "nan", neg |-> FALSE, digs |-> <<>>, pt |-> 0]
Inf(neg) == [k |-> "inf", neg |-> neg, digs |-> <<>>, pt |-> 0]
Zero(neg) == [k |-> "fin", neg |-> neg, digs |-> <<>>, pt |-> 0]

\* f64::is_finite
is_finite(f) == f.k = "fin"

\* f64 == f64: NaN equals nothing, -0.0 equals 0.0
f64_eq(a, b) ==
    /\ a.k # "nan" /\ b.k # "nan"
    /\ a.k = b.k /\ a.digs = b.digs /\ a.pt = b.pt
    /\ (a.neg = b.neg \/ (a.k = "fin" /\ a.digs = <<>>))

\* 0.a < 0.b for digit sequences a, b
lex_less(a, b) ==
    LET n == IF Len(a) > Len(b) THEN Len(a) ELSE Len(b)
        A(i) == IF i <= Len(a) THEN a[i] ELSE 0
        B(i) == IF i <= Len(b) THEN b[i] ELSE 0
    IN \E i \in 1..n : A(i) < B(i) /\ \A j \in 1..(i - 1) : A(j) = B(j)

\* 0.MaxBoundDigits * 10^309 = 2^1024 - 2^970: decimals from there on round to
\* infinity; 0.MinBoundDigits * 10^-323 = 2^-1075: decimals up to there round to 0
MaxBoundDigits == <<1,7,9,7,6,9,3,1,3,4,8,6,2,3,1,5,8,0,7,9>>
MinBoundDigits == <<2,4,7,0,3,2,8,2,2,9,2,0,6,2,3,2,7,2>>

\* the f64 of the decimal 0.ds * 10^pt: leading and trailing zeros dropped, the
\* range of f64 applied
to_f64(neg, ds, pt) ==
    LET nz == {i \in 1..Len(ds) : ds[i] # 0} IN
    IF nz = {} THEN Zero(neg)
    ELSE LET lo == CHOOSE i \in nz : \A j \in nz : i <= j
             hi == CHOOSE i \in nz : \A j \in nz : i >= j
             d == SubSeq(ds, lo, hi)
             p == pt - (lo - 1)
         IN IF p > 309 \/ (p = 309 /\ ~lex_less(d, MaxBoundDigits)) THEN Inf(neg)
            ELSE IF p < -323 \/ (p = -323 /\ lex_less(d, MinBoundDigits)) THEN Zero(neg)
            ELSE [k |-> "fin", neg |-> neg, digs |-> d, pt |-> p]

is_digits(s) == \A i \in 1..Len(s) : is_ascii_digit(s[i])

\* str::parse::<f64>:  Sign? ( 'inf' | 'infinity' | 'nan' | Number ), case-insensitive,
\* Number ::= ( Digit+ | Digit+ '.' Digit* | Digit* '.' Digit+ ) ( [eE] Sign? Digit+ )?
f64_from_str(s) ==
    LET signed == s # <<>> /\ s[1] \in {43, 45}
        neg == s # <<>> /\ s[1] = 45
        body == IF signed THEN Tail(s) ELSE s
        low == to_ascii_lowercase(body)
        es == {i \in 1..Len(body) : body[i] \in {101, 69}}
        epos == IF es = {} THEN Len(body) + 1 ELSE CHOOSE i \in es : \A j \in es : i <= j
        mant == SubSeq(body, 1, epos - 1)
        ex == SubSeq(body, epos + 1, Len(body))
        dots == {i \in 1..Len(mant) : mant[i] = 46}
        dot == IF dots = {} THEN Len(mant) + 1 ELSE CHOOSE i \in dots : TRUE
        ip == SubSeq(mant, 1, dot - 1)
        fp == SubSeq(mant, dot + 1, Len(mant))
        exneg == ex # <<>> /\ ex[1] = 45
        exd == IF ex # <<>> /\ ex[1] \in {43, 45} THEN Tail(ex) ELSE ex
        mant_ok == /\ Cardinality(dots) <= 1
                   /\ is_digits(ip) /\ is_digits(fp)
                   /\ Len(ip) + Len(fp) >= 1
        ex_ok == es = {} \/ (exd # <<>> /\ is_digits(exd))
        e == IF es = {} THEN 0
             ELSE IF exneg THEN 0 - digits_value(exd) ELSE digits_value(exd)
    IN IF low = <<105, 110, 102>> \/ low = <<105, 110, 102, 105, 110, 105, 116, 121>>
       THEN Ok(Inf(neg))
       ELSE IF low = <<110, 97, 110>> THEN Ok(NaN)
       ELSE IF mant_ok /\ ex_ok
       THEN Ok(to_f64(neg, [i \in 1..(Len(ip) + Len(fp)) |->
                              (IF i <= Len(ip) THEN ip[i] ELSE fp[i - Len(ip)]) - 48],
                      Len(ip) + e))
       ELSE Err

\* read.rs parse_f64: whitespace removed everywhere, then parsed
parse_f64(in) == f64_from_str(strip_whitespace(in))

\* a decimal digit sequence plus one (a carry out of the first digit lengthens it)
RECURSIVE inc_digits(_)
inc_digits(ds) ==
    IF ds = <<>> THEN <<1>>
    ELSE IF ds[Len(ds)] < 9 THEN [ds EXCEPT ![Len(ds)] = @ + 1]
    ELSE inc_digits(SubSeq(ds, 1, Len(ds) - 1)) \o <<0>>

\* format!("{:.prec}") of an f64: the sign, the integer digits, '.', `prec` decimals,
\* rounded to nearest.  A decimal that lies exactly half way is rounded by the binary
\* value of the double, which is not modelled: `tie` says which way it falls.
fmt_f64_prec(f, prec, tie) ==
    IF f.k = "nan" THEN <<78, 97, 78>>
    ELSE IF f.k = "inf" THEN (IF f.neg THEN <<45>> ELSE <<>>) \o <<105, 110, 102>>
    ELSE LET n == Len(f.digs)
             at(i) == IF i >= 1 /\ i <= n THEN f.digs[i] ELSE 0
             intd == IF f.pt <= 0 THEN <<0>> ELSE [i \in 1..f.pt |-> at(i)]
             fracd == [q \in 1..prec |-> at(f.pt + q)]
             r == f.pt + prec + 1
             up == \/ at(r) > 5
                   \/ (at(r) = 5 /\ n > r)
                   \/ (at(r) = 5 /\ n = r /\ tie)
             all == IF up THEN inc_digits(intd \o fracd) ELSE intd \o fracd
             cut == Len(all) - prec
         IN (IF f.neg THEN <<45>> ELSE <<>>)
            \o to_chars(SubSeq(all, 1, cut))
            \o (IF prec > 0 THEN <<46>> \o to_chars(SubSeq(all, cut + 1, Len(all))) ELSE <<>>)

\* format!("{:w.prec}") of an f64: right-justified in w columns, never truncated
fmt_f64(f, w, prec, tie) == pad_left(fmt_f64_prec(f, prec, tie), w)

----------------------------------------------------------------------------
(* structs/atom.rs                                                         *)

\* a setter's return: the receiver afterwards, and Ok(()) or Err(InvalidValue)
Done(a) == [self |-> a, ret |-> "Ok"]
InvalidValue(a) == [self |-> a, ret |-> "InvalidValue"]

Atom_new_no_element_check(hetero, serial_number, atom_name, res_name, chain_id, res_seq, x, y, z, occupancy, temp_factor, element, charge) ==
    IF /\ valid_identifier(atom_name)
       /\ is_finite(x) /\ is_finite(y) /\ is_finite(z)
       /\ is_finite(occupancy) /\ is_finite(temp_factor)
    THEN Some([hetero |-> hetero, serial_number |-> serial_number,
               atom_name |-> to_ascii_uppercase(trim(atom_name)), alt_location |-> None,
               res_name |-> to_ascii_uppercase(trim(res_name)),
               chain_id |-> to_ascii_uppercase(trim(chain_id)),
               res_seq |-> res_seq, i_code |-> None,
               x |-> x, y |-> y, z |-> z,
               occupancy |-> occupancy, temp_factor |-> temp_factor,
               segment_id |-> None,
               element |-> to_ascii_uppercase(trim(element)), charge |-> charge])
    ELSE None

\* Atom::new
Atom_new(hetero, serial_number, atom_name, res_name, chain_id, res_seq, x, y, z, occupancy, temp_factor, element, charge) ==
    IF /\ valid_identifier(atom_name)
       /\ valid_identifier(element)
       /\ is_finite(x) /\ is_finite(y) /\ is_finite(z)
       /\ is_finite(occupancy) /\ is_finite(temp_factor)
    THEN Some([hetero |-> hetero, serial_number |-> serial_number,
               atom_name |-> to_ascii_uppercase(trim(atom_name)), alt_location |-> None,
               res_name |-> to_ascii_uppercase(trim(res_name)),
               chain_id |-> to_ascii_uppercase(trim(chain_id)),
               res_seq |-> res_seq, i_code |-> None,
               x |-> x, y |-> y, z |-> z,
               occupancy |-> occupancy, temp_factor |-> temp_factor,
               segment_id |-> None,
               element |-> to_ascii_uppercase(trim(element)), charge |-> charge])
    ELSE None

\* a setter getset derives (#[getset(set = "pub")], as for hetero and charge): no
\* validation, no failure
set_serial_number(a, v) == Done([a EXCEPT !.serial_number = v])

set_name(a, new_name) ==
    IF valid_identifier(new_name)
    THEN Done([a EXCEPT !.atom_name = to_ascii_uppercase(trim(new_name))])
    ELSE InvalidValue(a)

set_residue_name(a, new_res_name) ==
    IF valid_identifier(new_res_name) /\ byte_len(new_res_name) = 3
    THEN Done([a EXCEPT !.res_name = to_ascii_uppercase(trim(new_res_name))])
    ELSE InvalidValue(a)

set_position_stores_first(a, nx, ny, nz) ==
    IF is_finite(nx) /\ is_finite(ny) /\ is_finite(nz)
    THEN Done([a EXCEPT !.x = nx, !.y = ny, !.z = nz])
    ELSE InvalidValue(IF is_finite(nx) THEN [a EXCEPT !.x = nx] ELSE a)

set_position(a, nx, ny, nz) ==
    IF is_finite(nx) /\ is_finite(ny) /\ is_finite(nz)
    THEN Done([a EXCEPT !.x = nx, !.y = ny, !.z = nz])
    ELSE InvalidValue(a)

set_x(a, new_x) ==
    IF is_finite(new_x) THEN Done([a EXCEPT !.x = new_x]) ELSE InvalidValue(a)

set_y(a, new_y) ==
    IF is_finite(new_y) THEN Done([a EXCEPT !.y = new_y]) ELSE InvalidValue(a)

set_z(a, new_z) ==
    IF is_finite(new_z) THEN Done([a EXCEPT !.z = new_z]) ELSE InvalidValue(a)

set_occupancy(a, new_occupancy) ==
    IF is_finite(new_occupancy) THEN Done([a EXCEPT !.occupancy = new_occupancy])
    ELSE InvalidValue(a)

set_temp_factor(a, new_temp_factor) ==
    IF is_finite(new_temp_factor) THEN Done([a EXCEPT !.temp_factor = new_temp_factor])
    ELSE InvalidValue(a)

set_element(a, new_element) ==
    IF valid_identifier(new_element)
    THEN Done([a EXCEPT !.element = to_ascii_uppercase(trim(new_element))])
    ELSE InvalidValue(a)

set_chain_id(a, new_id) ==
    IF valid_identifier(new_id) /\ byte_len(new_id) = 1
    THEN Done([a EXCEPT !.chain_id = to_ascii_uppercase(trim(new_id))])
    ELSE InvalidValue(a)

\* impl PartialEq for Atom
atom_eq(a, b) ==
    /\ a.serial_number = b.serial_number
    /\ a.atom_name = b.atom_name
    /\ a.element = b.element
    /\ a.res_name = b.res_name
    /\ a.chain_id = b.chain_id
    /\ f64_eq(a.x, b.x) /\ f64_eq(a.y, b.y) /\ f64_eq(a.z, b.z)
    /\ f64_eq(a.occupancy, b.occupancy)
    /\ f64_eq(a.temp_factor, b.temp_factor)

----------------------------------------------------------------------------
(* structs/pdb.rs                                                          *)

REMARK_TYPES ==
    {0, 1, 2, 3, 4, 5, 100, 200, 205, 210, 215, 217, 230, 240, 245, 247, 250, 265, 280,
     285, 290, 300, 350, 375, 400, 450, 465, 470, 475, 480, 500, 525, 600, 610, 615, 620,
     630, 650, 700, 800, 900, 999}

\* the longest remark text add_remarks stores
MaxRemarkText == 70

\* PDB::new
PDB_new == [identifier |-> None, remarks |-> <<>>, atoms |-> <<>>]

\* a PDB mutator's return: the receiver afterwards, and Ok(()), Err(InvalidValue),
\* or a panic (the thread unwinds: nothing is returned)
Panic(p) == [self |-> p, ret |-> "Panic"]

set_identifier(p, new_name) ==
    LET prepared == prepare_identifier(new_name) IN
    IF prepared.some
    THEN Done([p EXCEPT !.identifier = Some(to_ascii_uppercase(trim(prepared.v)))])
    ELSE InvalidValue(p)

add_remarks(p, remark_type, remark_text) ==
    IF remark_type \notin REMARK_TYPES THEN InvalidValue(p)
    ELSE IF byte_len(remark_text) > MaxRemarkText THEN Panic(p)
    ELSE Done([p EXCEPT !.remarks = Append(@, <<remark_type, remark_text>>)])

\* add_atom that inserts at the front of the container
add_atom_front(p, new_atom) == [p EXCEPT !.atoms = <<new_atom>> \o @]

add_atom(p, new_atom) == [p EXCEPT !.atoms = Append(@, new_atom)]

----------------------------------------------------------------------------
(* read.rs                                                                 *)

\* str::get(a..b): the characters of the byte range [a, b), or None when the range
\* is out of bounds or cuts a multi-byte character.  &line[a..b] panics on None.
str_get(s, a, b) ==
    IF \A i \in 1..Len(s) : s[i] < 128
    THEN IF a <= b /\ b <= Len(s) THEN Some(slice(s, a, b)) ELSE None
    ELSE LET ks == {k \in 0..Len(s) : byte_len(SubSeq(s, 1, k)) = a}
             ke == {k \in 0..Len(s) : byte_len(SubSeq(s, 1, k)) = b}
         IN IF a <= b /\ ks # {} /\ ke # {}
            THEN Some(slice(s, CHOOSE k \in ks : TRUE, CHOOSE k \in ke : TRUE))
            ELSE None

unwrap_or_empty(o) == IF o.some THEN o.v ELSE <<>>

\* the record tags parse_line matches
TagHEADER == <<72, 69, 65, 68, 69, 82>>
TagREMARK == <<82, 69, 77, 65, 82, 75>>
TagHETATM == <<72, 69, 84, 65, 84, 77>>
TagATOM == <<65, 84, 79, 77, 32, 32>>
TagTER6 == <<84, 69, 82, 32, 32, 32>>
TagEND6 == <<69, 78, 68, 32, 32, 32>>
TagTER == <<84, 69, 82>>
TagEND == <<69, 78, 68>>

\* ParsedItems, and the two ways a decode ends without one: an Err(anyhow) whose
\* message names line_number (0: the message names no line), or a panic
ItemTer == [kind |-> "Ter"]
ItemEnd == [kind |-> "End"]
ItemEmpty == [kind |-> "Empty"]
ParseErr(msg, line_number) == [kind |-> "Err", msg |-> msg, line_number |-> line_number]
ParsePanic == [kind |-> "Panic"]

parse_header(line, line_number) ==
    IF ~(byte_len(line) >= 66) THEN ParseErr("Header is too short", line_number)
    ELSE [kind |-> "Header",
          title |-> unwrap_or_empty(str_get(line, 10, 50)),
          date |-> unwrap_or_empty(str_get(line, 50, 59)),
          identifier |-> unwrap_or_empty(str_get(line, 62, 66))]

parse_remarks(line, line_number) ==
    IF ~(byte_len(line) <= 80) THEN ParseErr("remarks is too long", 0)
    ELSE IF Len(line) < 10 THEN ParsePanic   \* chars[7..10] out of range
    ELSE LET number == parse_usize(slice(line, 7, 10)) IN
         IF ~number.ok THEN ParseErr("can't parse the number as usize", line_number)
         ELSE [kind |-> "Remark",
               remark_type |-> number.v,
               remark_text |-> trim_end(unwrap_or_empty(str_get(line, 11, byte_len(line))))]

parse_atom(line, line_number, hetero) ==
    LET chars == line
        n == Len(chars)
        serial_number == parse_usize(slice(chars, 6, 11))
        res_seq == parse_usize(slice(chars, 22, 26))
        x == parse_f64(slice(chars, 30, 38))
        y == parse_f64(slice(chars, 38, 46))
        z == parse_f64(slice(chars, 46, 54))
        occupancy == IF n >= 60 THEN parse_f64(slice(chars, 54, 60)) ELSE Ok(to_f64(FALSE, <<1>>, 1))
        temp_factor == IF n >= 66 THEN parse_f64(slice(chars, 60, 66)) ELSE Ok(Zero(FALSE))
        has_charge == n >= 80 /\ ~(is_whitespace(chars[79]) /\ is_whitespace(chars[80]))
    IN
    IF ~(n >= 54) THEN ParseErr("Atom line is too short", line_number)
    ELSE IF ~serial_number.ok THEN ParseErr("can't parse the number as usize", line_number)
    ELSE IF ~res_seq.ok THEN ParseErr("can't parse the number as usize", line_number)
    ELSE IF ~x.ok \/ ~y.ok \/ ~z.ok THEN ParseErr("can't parse the number as f64", line_number)
    ELSE IF ~occupancy.ok THEN ParseErr("can't parse the number as f64", line_number)
    ELSE IF ~temp_factor.ok THEN ParseErr("can't parse the number as f64", line_number)
    ELSE IF n = 77 THEN ParsePanic           \* chars[76..78] out of range
    ELSE IF has_charge /\ ~is_ascii_digit(chars[79])
         THEN ParseErr("atom charge is not collect numeric", line_number)
    ELSE IF has_charge /\ ~(chars[80] \in {45, 43})
         THEN ParseErr("atom charge is not properly signed", line_number)
    ELSE [kind |-> "Atom",
          hetero |-> hetero,
          serial_number |-> serial_number.v,
          atom_name |-> slice(chars, 12, 16),
          res_name |-> slice(chars, 17, 20),
          chain_id |-> <<chars[22]>>,
          res_seq |-> res_seq.v,
          x |-> x.v, y |-> y.v, z |-> z.v,
          occupancy |-> occupancy.v,
          temp_factor |-> temp_factor.v,
          element |-> IF n >= 77 THEN slice(chars, 76, 78) ELSE <<>>,
          charge |-> IF has_charge THEN chars[79] - 48 ELSE 0]

parse_line(line, line_number) ==
    IF byte_len(line) > 6
    THEN LET tag == str_get(line, 0, 6) IN
         IF ~tag.some THEN ParsePanic
         ELSE IF tag.v = TagHEADER THEN parse_header(line, line_number)
         ELSE IF tag.v = TagREMARK THEN parse_remarks(line, line_number)
         ELSE IF tag.v = TagHETATM THEN parse_atom(line, line_number, TRUE)
         ELSE IF tag.v = TagATOM THEN parse_atom(line, line_number, FALSE)
         ELSE IF tag.v = TagTER6 THEN ItemTer
         ELSE IF tag.v = TagEND6 THEN ItemEnd
         ELSE ItemEmpty
    ELSE IF byte_len(line) > 2
    THEN LET tag == str_get(line, 0, 2) IN
         IF ~tag.some THEN ParsePanic
         ELSE IF tag.v = TagTER THEN ItemTer
         ELSE IF tag.v = TagEND THEN ItemEnd
         ELSE ItemEmpty
    ELSE ItemEmpty

\* what one iteration of read_pdb_raw ends with, and what read_pdb_raw returns:
\* Ok(pdb), or Err (line_number is the line being folded, err the kind of error), or
\* nothing at all (a panic while folding line_number)
ReadOk(p) == [kind |-> "Ok", pdb |-> p]
ReadErr(n, e) == [kind |-> "Err", line_number |-> n, err |-> e]
ReadPanic(n) == [kind |-> "Panic", line_number |-> n]

\* the body of the loop of read_pdb_raw: the Structure after the line (Ok), or the
\* early return
\* the match on the decoded item
fold_item(p, item, line_number) ==
    IF item.kind = "Panic" THEN ReadPanic(line_number)
    ELSE IF item.kind = "Err" THEN ReadOk(p)      \* `if let Ok(result)`: no else branch
    ELSE IF item.kind = "Header"
    THEN LET r == set_identifier(p, item.identifier) IN
         IF r.ret = "Ok" THEN ReadOk(r.self) ELSE ReadErr(line_number, r.ret)
    ELSE IF item.kind = "Remark"
    THEN LET r == add_remarks(p, item.remark_type, item.remark_text) IN
         IF r.ret = "Ok" THEN ReadOk(r.self)
         ELSE IF r.ret = "Panic" THEN ReadPanic(line_number)
         ELSE ReadErr(line_number, r.ret)
    ELSE IF item.kind = "Atom"
    THEN LET a == Atom_new(item.hetero, item.serial_number, item.atom_name, item.res_name,
                           item.chain_id, item.res_seq, item.x, item.y, item.z,
                           item.occupancy, item.temp_factor, item.element, item.charge) IN
         IF a.some THEN ReadOk(add_atom(p, a.v)) ELSE ReadErr(line_number, "InvalidAtom")
    ELSE ReadOk(p)

fold_line(p, line, line_number) == fold_item(p, parse_line(line, line_number), line_number)

----------------------------------------------------------------------------
(* save.rs                                                                 *)

\* the width write_line pads a line to
MinLineWidth == 70

\* the closure write_line: the line as written, without its newline
write_line(line) ==
    IF byte_len(line) < MinLineWidth
    THEN line \o repeat(32, MinLineWidth - byte_len(line))
    ELSE line

\* format!("HEADER<56 spaces>{}", identifier)
fmt_header(identifier) == TagHEADER \o repeat(32, 56) \o identifier

\* format!("REMARK {:3} {}", line.0, line.1)
fmt_remark(remark) ==
    TagREMARK \o <<32>> \o pad_left(fmt_usize(remark[1]), 3) \o <<32>> \o remark[2]

\* format!("{}{:5} {:^4}{:1}{:4}{:1}{:4}{:1}   {:8.3}{:8.3}{:8.3}{:6.2}{:6.2}          {:>2}{}", ...)
fmt_atom(a, tie) ==
    (IF a.hetero THEN TagHETATM ELSE TagATOM)
    \o pad_left(fmt_usize(a.serial_number), 5)
    \o <<32>>
    \o pad_center(a.atom_name, 4)
    \o pad_right(IF a.alt_location.some THEN a.alt_location.v ELSE <<32>>, 1)
    \o pad_right(a.res_name, 4)
    \o pad_right(a.chain_id, 1)
    \o pad_left(fmt_usize(a.res_seq), 4)
    \o pad_right(IF a.i_code.some THEN a.i_code.v ELSE <<32>>, 1)
    \o repeat(32, 3)
    \o fmt_f64(a.x, 8, 3, tie)
    \o fmt_f64(a.y, 8, 3, tie)
    \o fmt_f64(a.z, 8, 3, tie)
    \o fmt_f64(a.occupancy, 6, 2, tie)
    \o fmt_f64(a.temp_factor, 6, 2, tie)
    \o repeat(32, 10)
    \o pad_left(a.element, 2)
    \o fmt_isize(a.charge)

\* save_lines with the HEADER line written outside the `if !atom_only` block
save_lines_header_always(p, atom_only, tie) ==
    (IF p.identifier.some THEN <<fmt_header(p.identifier.v)>> ELSE <<>>)
    \o (IF ~atom_only
        THEN [i \in 1..Len(p.remarks) |-> fmt_remark(p.remarks[i])]
        ELSE <<>>)
    \o [i \in 1..Len(p.atoms) |-> fmt_atom(p.atoms[i], tie)]
    \o <<TagTER>>

\* the arguments of the successive write_line calls of save_pdb_raw
save_lines(p, atom_only, tie) ==
    (IF ~atom_only
     THEN (IF p.identifier.some THEN <<fmt_header(p.identifier.v)>> ELSE <<>>)
          \o [i \in 1..Len(p.remarks) |-> fmt_remark(p.remarks[i])]
     ELSE <<>>)
    \o [i \in 1..Len(p.atoms) |-> fmt_atom(p.atoms[i], tie)]
    \o <<TagTER>>

\* save_pdb_raw: the lines written to the stream (the stream itself never fails)
save_pdb_raw(p, atom_only, tie) ==
    LET ls == save_lines(p, atom_only, tie) IN [i \in 1..Len(ls) |-> write_line(ls[i])]

----------------------------------------------------------------------------
(* The values the operations are called with.                              *)

\* "ATOM      1  N   ALA A   1      11.104  13.207   2.123  1.00 20.00           N  " : the scenario line of the specification
LineAtom ==
    <<65, 84, 79, 77, 32, 32, 32, 32, 32, 32, 49, 32, 32, 78, 32, 32, 32, 65, 76, 65,
     32, 65, 32, 32, 32, 49, 32, 32, 32, 32, 32, 32, 49, 49, 46, 49, 48, 52, 32, 32,
     49, 51, 46, 50, 48, 55, 32, 32, 32, 50, 46, 49, 50, 51, 32, 32, 49, 46, 48, 48,
     32, 50, 48, 46, 48, 48, 32, 32, 32, 32, 32, 32, 32, 32, 32, 32, 32, 78, 32, 32>>

\* "HETATM   22  o   hoh b  12    11.10456  -3.500   0.250  0.50  0.00           o1+" : 5 decimals in x, charge 1+
LineHetatm ==
    <<72, 69, 84, 65, 84, 77, 32, 32, 32, 50, 50, 32, 32, 111, 32, 32, 32, 104, 111,
     104, 32, 98, 32, 32, 49, 50, 32, 32, 32, 32, 49, 49, 46, 49, 48, 52, 53, 54, 32,
     32, 45, 51, 46, 53, 48, 48, 32, 32, 32, 48, 46, 50, 53, 48, 32, 32, 48, 46, 53,
     48, 32, 32, 48, 46, 48, 48, 32, 32, 32, 32, 32, 32, 32, 32, 32, 32, 32, 111, 49,
     43>>

\* "ATOM      1  N   ALA A   1      1x.104  13.207   2.123  1.00 20.00           N  " : x is no number
LineAtomBadNum ==
    <<65, 84, 79, 77, 32, 32, 32, 32, 32, 32, 49, 32, 32, 78, 32, 32, 32, 65, 76, 65,
     32, 65, 32, 32, 32, 49, 32, 32, 32, 32, 32, 32, 49, 120, 46, 49, 48, 52, 32, 32,
     49, 51, 46, 50, 48, 55, 32, 32, 32, 50, 46, 49, 50, 51, 32, 32, 49, 46, 48, 48,
     32, 50, 48, 46, 48, 48, 32, 32, 32, 32, 32, 32, 32, 32, 32, 32, 32, 78, 32, 32>>

\* "ATOM      1  N   ALA A   1         NaN  13.207   2.123  1.00 20.00           N  " : x parses to NaN
LineAtomNaN ==
    <<65, 84, 79, 77, 32, 32, 32, 32, 32, 32, 49, 32, 32, 78, 32, 32, 32, 65, 76, 65,
     32, 65, 32, 32, 32, 49, 32, 32, 32, 32, 32, 32, 32, 32, 32, 78, 97, 78, 32, 32,
     49, 51, 46, 50, 48, 55, 32, 32, 32, 50, 46, 49, 50, 51, 32, 32, 49, 46, 48, 48,
     32, 50, 48, 46, 48, 48, 32, 32, 32, 32, 32, 32, 32, 32, 32, 32, 32, 78, 32, 32>>

\* "ATOM      1  N   ALA A   1      11.104  13.207   2.123  1.00 20.00           N+1" : the charge is sign-first
LineAtomBadCharge ==
    <<65, 84, 79, 77, 32, 32, 32, 32, 32, 32, 49, 32, 32, 78, 32, 32, 32, 65, 76, 65,
     32, 65, 32, 32, 32, 49, 32, 32, 32, 32, 32, 32, 49, 49, 46, 49, 48, 52, 32, 32,
     49, 51, 46, 50, 48, 55, 32, 32, 32, 50, 46, 49, 50, 51, 32, 32, 49, 46, 48, 48,
     32, 50, 48, 46, 48, 48, 32, 32, 32, 32, 32, 32, 32, 32, 32, 32, 32, 78, 43, 49>>

\* "ATOM      1  N   ALA A   1    " : an ATOM line cut before its coordinates
LineAtomShort ==
    <<65, 84, 79, 77, 32, 32, 32, 32, 32, 32, 49, 32, 32, 78, 32, 32, 32, 65, 76, 65,
     32, 65, 32, 32, 32, 49, 32, 32, 32, 32>>

\* "HEADER    HYDROLASE                               01-JAN-00   1abc    "
LineHeader ==
    <<72, 69, 65, 68, 69, 82, 32, 32, 32, 32, 72, 89, 68, 82, 79, 76, 65, 83, 69, 32,
     32, 32, 32, 32, 32, 32, 32, 32, 32, 32, 32, 32, 32, 32, 32, 32, 32, 32, 32, 32,
     32, 32, 32, 32, 32, 32, 32, 32, 32, 32, 48, 49, 45, 74, 65, 78, 45, 48, 48, 32,
     32, 32, 49, 97, 98, 99, 32, 32, 32, 32>>

\* "HEADER    HYDROLASE                               01-JAN-00           " : a blank identifier
LineHeaderBlank ==
    <<72, 69, 65, 68, 69, 82, 32, 32, 32, 32, 72, 89, 68, 82, 79, 76, 65, 83, 69, 32,
     32, 32, 32, 32, 32, 32, 32, 32, 32, 32, 32, 32, 32, 32, 32, 32, 32, 32, 32, 32,
     32, 32, 32, 32, 32, 32, 32, 32, 32, 32, 48, 49, 45, 74, 65, 78, 45, 48, 48, 32,
     32, 32, 32, 32, 32, 32, 32, 32, 32, 32>>

\* "REMARK   3 RESOLUTION."
LineRemark ==
    <<82, 69, 77, 65, 82, 75, 32, 32, 32, 51, 32, 82, 69, 83, 79, 76, 85, 84, 73, 79,
     78, 46>>

\* "REMARK   6 NOTE" : 6 is no registered remark type
LineRemarkUnregistered ==
    <<82, 69, 77, 65, 82, 75, 32, 32, 32, 54, 32, 78, 79, 84, 69>>

\* "REMARK   1 AAAAAAAAAAAAAAAAAAAAAAAAAAAAAAAAAAAAAAAAAAAAAAAAAAAAAAAAAAAAAAAAAAAAAA" : 81 characters
LineRemarkLong ==
    <<82, 69, 77, 65, 82, 75, 32, 32, 32, 49, 32, 65, 65, 65, 65, 65, 65, 65, 65, 65,
     65, 65, 65, 65, 65, 65, 65, 65, 65, 65, 65, 65, 65, 65, 65, 65, 65, 65, 65, 65,
     65, 65, 65, 65, 65, 65, 65, 65, 65, 65, 65, 65, 65, 65, 65, 65, 65, 65, 65, 65,
     65, 65, 65, 65, 65, 65, 65, 65, 65, 65, 65, 65, 65, 65, 65, 65, 65, 65, 65, 65,
     65>>

\* "REMARK  1" : the type field [7,10) is not all there
LineRemark9 ==
    <<82, 69, 77, 65, 82, 75, 32, 32, 49>>

\* "TER"
LineTer ==
    <<84, 69, 82>>

\* "TER       "
LineTerPadded ==
    <<84, 69, 82, 32, 32, 32, 32, 32, 32, 32>>

\* "END       "
LineEndPadded ==
    <<69, 78, 68, 32, 32, 32, 32, 32, 32, 32>>

\* "CRYST1   1.000"
LineOther ==
    <<67, 82, 89, 83, 84, 49, 32, 32, 32, 49, 46, 48, 48, 48>>

\* "N"
TextN ==
    <<78>>

\* " ca "
TextCaLower ==
    <<32, 99, 97, 32>>

\* "C\x7f"
TextDel ==
    <<67, 127>>

\* "\x1fH"
TextCtl ==
    <<31, 72>>

\* "F\xe9"
TextNonAscii ==
    <<70, 233>>

\* "ALA"
TextALA ==
    <<65, 76, 65>>

\* "gly"
TextGlyLower ==
    <<103, 108, 121>>

\* "AL"
TextAL ==
    <<65, 76>>

\* "AL\xe9"
TextALNonAscii ==
    <<65, 76, 233>>

\* "A"
TextA ==
    <<65>>

\* "b"
TextBLower ==
    <<98>>

\* "AB"
TextAB ==
    <<65, 66>>

\* " o "
TextO ==
    <<32, 111, 32>>

\* "hoh"
TextHOH ==
    <<104, 111, 104>>

\* "1abc"
Text1abc ==
    <<49, 97, 98, 99>>

\* "ABCDE"
TextABCDE ==
    <<65, 66, 67, 68, 69>>

\* "  "
TextBlank ==
    <<32, 32>>

\* "RESOLUTION."
TextResolution ==
    <<82, 69, 83, 79, 76, 85, 84, 73, 79, 78, 46>>

\* "NOTE "
TextNote ==
    <<78, 79, 84, 69, 32>>

\* f64 values: 1.5, -2.25, 11.104, 13.207, 2.123, 1.0, 20.0, 11.1045, -1000.5
F1_5 == to_f64(FALSE, <<1, 5>>, 1)
FNeg2_25 == to_f64(TRUE, <<2, 2, 5>>, 1)
F11_104 == to_f64(FALSE, <<1, 1, 1, 0, 4>>, 2)
F13_207 == to_f64(FALSE, <<1, 3, 2, 0, 7>>, 2)
F2_123 == to_f64(FALSE, <<2, 1, 2, 3>>, 1)
F1_0 == to_f64(FALSE, <<1>>, 1)
F20_0 == to_f64(FALSE, <<2>>, 2)
F11_1046 == to_f64(FALSE, <<1, 1, 1, 0, 4, 6>>, 2)
FNeg1000_5 == to_f64(TRUE, <<1, 0, 0, 0, 5>>, 4)

\* names and elements: valid, valid after trimming and upper-casing, and with a
\* character of code point 127, 31 and 233
NameArgs == {TextN, TextCaLower, TextDel, TextCtl, TextNonAscii}
\* residue names and chain ids Atom::new is called with
NewResArgs == {TextALA, TextALNonAscii}
NewChainArgs == {TextA, TextAB}
\* residue names and chain ids the setters are called with
ResArgs == {TextGlyLower, TextAL, TextALNonAscii}
ChainArgs == {TextBLower, TextAB, TextDel}
\* numbers: finite and not
PosArgs == {F1_5, FNeg2_25, NaN, Inf(FALSE)}
NumArgs == {F1_5, FNeg2_25, NaN, Inf(TRUE)}
NewNumArgs == {F1_5, NaN}

----------------------------------------------------------------------------
(* The state machine.  `op` is the last call: its name, its text arguments *)
(* and its numeric arguments (kept for Atom::new only).                    *)

Call(name, s, f) == [name |-> name, s |-> s, f |-> f]
Ret(kind) == [kind |-> kind]

Idle ==
    /\ atom = None
    /\ op = Call("init", <<>>, <<>>)
    /\ res = Ret("none")
    /\ pdb = PDB_new
    /\ input = <<>>
    /\ line_no = 0
    /\ stream = <<>>
    /\ raw = <<>>
    /\ atoms_only = FALSE
    /\ reread = Ret("none")

(* A caller constructs an Atom and calls its setters. *)

InitAtom == mode = "atom" /\ Idle

UNCHANGED_io == UNCHANGED <<mode, pdb, input, line_no, stream, raw, atoms_only, reread>>

New ==
    /\ mode = "atom" /\ op.name = "init"
    /\ \E atom_name \in NameArgs, element \in NameArgs, res_name \in NewResArgs,
          chain_id \in NewChainArgs, x \in PosArgs,
          y \in NewNumArgs, z \in NewNumArgs, occupancy \in NewNumArgs,
          temp_factor \in NewNumArgs :
        /\ atom' = Atom_new(FALSE, 1, atom_name, res_name, chain_id, 1,
                            x, y, z, occupancy, temp_factor, element, 0)
        /\ op' = Call("new", <<atom_name, element, res_name, chain_id>>,
                      <<x, y, z, occupancy, temp_factor>>)
        /\ res' = Ret(IF atom'.some THEN "Some" ELSE "None")
    /\ UNCHANGED_io

\* the caller's atom after a setter returned r
Returned(name, r) ==
    /\ atom' = Some(r.self)
    /\ op' = Call(name, <<>>, <<>>)
    /\ res' = Ret(r.ret)
    /\ UNCHANGED_io

SetSerialNumber ==
    /\ mode = "atom" /\ atom.some
    /\ \E v \in {1, 2} : Returned("set_serial_number", set_serial_number(atom.v, v))

SetName ==
    /\ mode = "atom" /\ atom.some
    /\ \E s \in NameArgs : Returned("set_name", set_name(atom.v, s))

SetElement ==
    /\ mode = "atom" /\ atom.some
    /\ \E s \in NameArgs : Returned("set_element", set_element(atom.v, s))

SetResidueName ==
    /\ mode = "atom" /\ atom.some
    /\ \E s \in ResArgs : Returned("set_residue_name", set_residue_name(atom.v, s))

SetChainId ==
    /\ mode = "atom" /\ atom.some
    /\ \E s \in ChainArgs : Returned("set_chain_id", set_chain_id(atom.v, s))

SetPosition ==
    /\ mode = "atom" /\ atom.some
    /\ \E x \in PosArgs, y \in NumArgs, z \in NewNumArgs :
        Returned("set_position", set_position(atom.v, x, y, z))

SetX ==
    /\ mode = "atom" /\ atom.some
    /\ \E v \in PosArgs : Returned("set_x", set_x(atom.v, v))

SetY ==
    /\ mode = "atom" /\ atom.some
    /\ \E v \in PosArgs : Returned("set_y", set_y(atom.v, v))

SetZ ==
    /\ mode = "atom" /\ atom.some
    /\ \E v \in PosArgs : Returned("set_z", set_z(atom.v, v))

SetOccupancy ==
    /\ mode = "atom" /\ atom.some
    /\ \E v \in NumArgs : Returned("set_occupancy", set_occupancy(atom.v, v))

SetTempFactor ==
    /\ mode = "atom" /\ atom.some
    /\ \E v \in NumArgs : Returned("set_temp_factor", set_temp_factor(atom.v, v))

NextAtom ==
    \/ New
    \/ SetSerialNumber
    \/ SetName \/ SetElement \/ SetResidueName \/ SetChainId
    \/ SetPosition \/ SetX \/ SetY \/ SetZ
    \/ SetOccupancy \/ SetTempFactor

SpecAtom == InitAtom /\ [][NextAtom]_vars

----------------------------------------------------------------------------
(* Properties of the Atom, checked under SpecAtom.                         *)

\* every character has a code point strictly between 31 and 127
AllowedText(s) == \A i \in 1..Len(s) : s[i] > 31 /\ s[i] < 127

Finite(f) == f.k = "fin"

\* C4: an Atom that exists, after Atom::new and any sequence of setter calls, has a
\* name and an element of allowed characters only and finite x, y, z, occupancy and
\* temperature factor; and Atom::new returned no value when it was given a name or an
\* element with a disallowed character, or a non-finite number.
C4_AtomInvariant ==
    /\ atom.some =>
        /\ AllowedText(atom.v.atom_name)
        /\ AllowedText(atom.v.element)
        /\ Finite(atom.v.x) /\ Finite(atom.v.y) /\ Finite(atom.v.z)
        /\ Finite(atom.v.occupancy) /\ Finite(atom.v.temp_factor)
    /\ (/\ op.name = "new"
        /\ \/ ~AllowedText(op.s[1])
           \/ ~AllowedText(op.s[2])
           \/ \E i \in 1..5 : ~Finite(op.f[i]))
       => (~atom.some /\ res.kind = "None")

\* an Atom exists and its last setter call, with a disallowed character, was refused
C4_Witness ==
    /\ atom.some
    /\ op.name = "set_element" /\ res.kind = "InvalidValue"

ValidatedSetters ==
    {"set_name", "set_element", "set_residue_name", "set_chain_id", "set_position",
     "set_x", "set_y", "set_z", "set_occupancy", "set_temp_factor"}

\* the fields of the Atom, and those each validated setter names
AtomFields ==
    {"hetero", "serial_number", "atom_name", "alt_location", "res_name", "chain_id",
     "res_seq", "i_code", "x", "y", "z", "occupancy", "temp_factor", "segment_id",
     "element", "charge"}

Names(setter) ==
    CASE setter = "set_name" -> {"atom_name"}
      [] setter = "set_element" -> {"element"}
      [] setter = "set_residue_name" -> {"res_name"}
      [] setter = "set_chain_id" -> {"chain_id"}
      [] setter = "set_position" -> {"x", "y", "z"}
      [] setter = "set_x" -> {"x"}
      [] setter = "set_y" -> {"y"}
      [] setter = "set_z" -> {"z"}
      [] setter = "set_occupancy" -> {"occupancy"}
      [] setter = "set_temp_factor" -> {"temp_factor"}

\* C10: a validated setter returns Ok or the invalid-value error; when it returns the
\* error every field of the Atom is as before the call, and when it returns Ok every
\* field it does not name is as before the call.
C10_SetterFrame ==
    [][op'.name \in ValidatedSetters =>
        /\ atom.some /\ atom'.some
        /\ res'.kind \in {"Ok", "InvalidValue"}
        /\ res'.kind = "InvalidValue" => atom'.v = atom.v
        /\ res'.kind = "Ok" =>
              \A fld \in AtomFields \ Names(op'.name) : atom'.v[fld] = atom.v[fld]]_vars

\* set_position was refused
C10_Witness ==
    /\ atom.some
    /\ op.name = "set_position" /\ res.kind = "InvalidValue"

----------------------------------------------------------------------------
(* parse_line as a function: one line, one line number, one call.          *)

\* the largest line number parse_line is called with
MaxLineNo == 2

\* every line that is the beginning of one of these
DecodeTemplates ==
    {LineAtom, LineHetatm, LineAtomBadNum, LineAtomNaN, LineAtomBadCharge,
     LineHeader, LineRemark, LineRemarkUnregistered, LineRemarkLong,
     LineTerPadded, LineEndPadded, LineOther}

DecodePool == UNION {{SubSeq(t, 1, k) : k \in 0..Len(t)} : t \in DecodeTemplates}

InitDecode ==
    /\ mode = "line"
    /\ atom = None
    /\ op = Call("init", <<>>, <<>>)
    /\ res = Ret("none")
    /\ pdb = PDB_new
    /\ input \in {<<l>> : l \in DecodePool}
    /\ line_no \in 1..MaxLineNo
    /\ stream = <<>>
    /\ raw = <<>>
    /\ atoms_only = FALSE
    /\ reread = Ret("none")

ParseLine ==
    /\ mode = "line"
    /\ mode' = "decoded"
    /\ op' = Call("parse_line", <<>>, <<>>)
    /\ res' = parse_line(input[1], line_no)
    /\ UNCHANGED <<atom, pdb, input, line_no, stream, raw, atoms_only, reread>>

NextDecode == ParseLine

SpecDecode == InitDecode /\ [][NextDecode]_vars

----------------------------------------------------------------------------
(* Writing a Structure and reading it back; the Structure is the one       *)
(* read_pdb_raw returned (SpecRead) or one a caller built (SpecBuild).     *)

\* a caller holds a Structure: it was built, or read_pdb_raw returned it
HoldsStructure == mode = "build" \/ (mode = "read" /\ res.kind = "Ok")

SavePdbRaw ==
    /\ HoldsStructure
    /\ \E only \in BOOLEAN, tie \in BOOLEAN :
        /\ atoms_only' = only
        /\ raw' = save_lines(pdb, only, tie)
        /\ stream' = save_pdb_raw(pdb, only, tie)
    /\ mode' = "saved"
    /\ op' = Call("save_pdb_raw", <<>>, <<>>)
    /\ res' = Ret("Ok")
    /\ reread' = [kind |-> "Reading", pdb |-> PDB_new, line_number |-> 0]
    /\ UNCHANGED <<atom, pdb, input, line_no>>

\* the loop of read_pdb_raw after an iteration that ended with r: still reading, with
\* n lines folded, or returned
Continue(r, n) ==
    IF r.kind = "Ok" THEN [kind |-> "Reading", pdb |-> r.pdb, line_number |-> n] ELSE r

\* read_pdb_raw on the written lines, one iteration of its loop: reread.line_number
\* lines are folded into reread.pdb
ReadBackLine ==
    /\ mode = "saved"
    /\ reread.kind = "Reading"
    /\ reread.line_number < Len(stream)
    /\ reread' = Continue(fold_line(reread.pdb, stream[reread.line_number + 1],
                                    reread.line_number + 1),
                          reread.line_number + 1)
    /\ op' = Call("read_pdb_raw", <<>>, <<>>)
    /\ UNCHANGED <<mode, atom, res, pdb, input, line_no, stream, raw, atoms_only>>

\* ... and its return after the last line
ReadBackReturn ==
    /\ mode = "saved"
    /\ reread.kind = "Reading"
    /\ reread.line_number = Len(stream)
    /\ reread' = ReadOk(reread.pdb)
    /\ op' = Call("read_pdb_raw", <<>>, <<>>)
    /\ UNCHANGED <<mode, atom, res, pdb, input, line_no, stream, raw, atoms_only>>

(* read_pdb_raw over a sequence of lines *)

\* the most lines an input has
MaxLines == 2

ReadPool ==
    {LineAtom, LineHetatm, LineAtomShort, LineAtomNaN, LineHeader, LineHeaderBlank,
     LineRemark, LineRemarkUnregistered, LineRemarkLong, LineRemark9, LineTer,
     LineTerPadded, LineEndPadded, LineOther}

\* read_pdb_raw is entered: pdb = PDB::new(), no line consumed
InitRead ==
    /\ mode = "reading"
    /\ atom = None
    /\ op = Call("init", <<>>, <<>>)
    /\ res = Ret("none")
    /\ pdb = PDB_new
    /\ input \in UNION {[1..n -> ReadPool] : n \in 0..MaxLines}
    /\ line_no = 0
    /\ stream = <<>>
    /\ raw = <<>>
    /\ atoms_only = FALSE
    /\ reread = Ret("none")

\* an iteration that ended with r: the loop goes on with r's Structure, or read_pdb_raw
\* returns r
Folded(r) ==
    /\ pdb' = IF r.kind = "Ok" THEN r.pdb ELSE PDB_new
    /\ res' = IF r.kind = "Ok" THEN res ELSE r
    /\ mode' = IF r.kind = "Ok" THEN mode ELSE "read"

\* one iteration of the loop of read_pdb_raw: line line_no + 1 is folded into pdb, or
\* the function returns early (its pdb is dropped)
ReadLine ==
    /\ mode = "reading"
    /\ line_no < Len(input)
    /\ Folded(fold_line(pdb, input[line_no + 1], line_no + 1))
    /\ line_no' = line_no + 1
    /\ op' = Call("read_pdb_raw", <<>>, <<>>)
    /\ UNCHANGED <<atom, input, stream, raw, atoms_only, reread>>

\* the lines are exhausted: Ok(pdb)
ReadReturn ==
    /\ mode = "reading"
    /\ line_no = Len(input)
    /\ mode' = "read"
    /\ res' = ReadOk(pdb)
    /\ op' = Call("read_pdb_raw", <<>>, <<>>)
    /\ UNCHANGED <<atom, pdb, input, line_no, stream, raw, atoms_only, reread>>

NextRead == ReadLine \/ ReadReturn \/ SavePdbRaw \/ ReadBackLine \/ ReadBackReturn

SpecRead == InitRead /\ [][NextRead]_vars

(* a caller builds a Structure with set_identifier, add_remarks and add_atom *)

\* the most remarks and atoms a built Structure holds
MaxRemarks == 2
MaxAtoms == 2

Text70 == repeat(65, 70)
Text71 == repeat(65, 71)

IdentArgs == {Text1abc, TextABCDE, TextBlank, TextDel}

\* <<remark_type, remark_text>>
RemarkArgs ==
    {<<3, TextResolution>>, <<1, Text70>>, <<2, TextNonAscii>>,
     <<6, TextNote>>, <<1, Text71>>, <<6, Text71>>}

\* the arguments of Atom::new
AtomArgs ==
    {[hetero |-> FALSE, serial_number |-> 1, atom_name |-> TextN, res_name |-> TextALA,
      chain_id |-> TextA, res_seq |-> 1, x |-> F11_104, y |-> F13_207, z |-> F2_123,
      occupancy |-> F1_0, temp_factor |-> F20_0, element |-> TextN, charge |-> 0],
     [hetero |-> TRUE, serial_number |-> 22, atom_name |-> TextO, res_name |-> TextHOH,
      chain_id |-> TextBLower, res_seq |-> 12, x |-> FNeg2_25, y |-> F1_5, z |-> Zero(FALSE),
      occupancy |-> F1_0, temp_factor |-> Zero(FALSE), element |-> TextO, charge |-> -1],
     [hetero |-> FALSE, serial_number |-> 3, atom_name |-> TextCaLower, res_name |-> TextALA,
      chain_id |-> TextA, res_seq |-> 1, x |-> F11_1046, y |-> FNeg1000_5, z |-> F2_123,
      occupancy |-> F1_0, temp_factor |-> F20_0, element |-> TextN, charge |-> 0],
     [hetero |-> FALSE, serial_number |-> 4, atom_name |-> TextN, res_name |-> TextALA,
      chain_id |-> TextA, res_seq |-> 1, x |-> NaN, y |-> F13_207, z |-> F2_123,
      occupancy |-> F1_0, temp_factor |-> F20_0, element |-> TextN, charge |-> 0]}

InitBuild == mode = "build" /\ Idle

SetIdentifier ==
    /\ mode = "build"
    /\ \E s \in IdentArgs :
        LET r == set_identifier(pdb, s) IN
        /\ pdb' = r.self
        /\ op' = Call("set_identifier", <<s>>, <<>>)
        /\ res' = Ret(r.ret)
    /\ UNCHANGED <<mode, atom, input, line_no, stream, raw, atoms_only, reread>>

\* a panic ends the program: mode "aborted"
AddRemarks ==
    /\ mode = "build"
    /\ Len(pdb.remarks) < MaxRemarks
    /\ \E rm \in RemarkArgs :
        LET r == add_remarks(pdb, rm[1], rm[2]) IN
        /\ pdb' = r.self
        /\ op' = Call("add_remarks", <<rm[2]>>, <<rm[1]>>)
        /\ res' = Ret(r.ret)
        /\ mode' = IF r.ret = "Panic" THEN "aborted" ELSE mode
    /\ UNCHANGED <<atom, input, line_no, stream, raw, atoms_only, reread>>

\* pdb.add_atom(Atom::new(...)?): nothing is added when Atom::new returns None
AddAtom ==
    /\ mode = "build"
    /\ Len(pdb.atoms) < MaxAtoms
    /\ \E a \in AtomArgs :
        LET n == Atom_new(a.hetero, a.serial_number, a.atom_name, a.res_name, a.chain_id,
                          a.res_seq, a.x, a.y, a.z, a.occupancy, a.temp_factor,
                          a.element, a.charge) IN
        /\ pdb' = IF n.some THEN add_atom(pdb, n.v) ELSE pdb
        /\ op' = Call("add_atom", <<>>, <<>>)
        /\ res' = Ret(IF n.some THEN "Ok" ELSE "None")
    /\ UNCHANGED <<mode, atom, input, line_no, stream, raw, atoms_only, reread>>

NextBuild ==
    \/ SetIdentifier \/ AddRemarks \/ AddAtom
    \/ SavePdbRaw \/ ReadBackLine \/ ReadBackReturn

SpecBuild == InitBuild /\ [][NextBuild]_vars

----------------------------------------------------------------------------
(* Properties of read_pdb_raw, parse_line and save_pdb_raw.                *)

\* line i of the input fails to decode
Undecodable(i) == parse_line(input[i], i).kind = "Err"

\* C1: when read_pdb_raw has returned and some input line fails to decode, it has
\* returned an error, and not one of a line after the first such line: no Structure
\* is returned from an input that holds an undecodable line.
C1_DecodeErrorPropagated ==
    mode = "read" =>
        \A i \in 1..Len(input) :
            Undecodable(i) => res.kind # "Ok" /\ res.line_number <= i

\* the written lines have been read back to the end, or to an early return
ReadBackDone == mode = "saved" /\ reread.kind # "Reading"

\* C2: a Structure built by successful set_identifier, add_remarks and
\* add_atom(Atom::new(..)) calls, written with atom_only = false and read back: the
\* read succeeds and returns the same identifier, the same remarks and as many atoms,
\* pairwise equal in the same order.
C2_RoundTrip ==
    (ReadBackDone /\ ~atoms_only) =>
        /\ reread.kind = "Ok"
        /\ reread.pdb.identifier = pdb.identifier
        /\ reread.pdb.remarks = pdb.remarks
        /\ Len(reread.pdb.atoms) = Len(pdb.atoms)
        /\ \A i \in 1..Len(pdb.atoms) : atom_eq(reread.pdb.atoms[i], pdb.atoms[i])

\* two Structures are equal: identifier, remarks, and the atoms under PartialEq
SameStructure(a, b) ==
    /\ a.identifier = b.identifier
    /\ a.remarks = b.remarks
    /\ Len(a.atoms) = Len(b.atoms)
    /\ \A i \in 1..Len(a.atoms) : i <= Len(b.atoms) => atom_eq(a.atoms[i], b.atoms[i])

\* C3: a Structure that read_pdb_raw returned, written (with the header and the
\* remarks) and read back: the second read returns a Structure equal to the first.
C3_Idempotent ==
    (ReadBackDone /\ ~atoms_only) => reread.kind = "Ok" /\ SameStructure(reread.pdb, pdb)

\* the arguments these mutators must reject
BadRemark(remark_type, remark_text) ==
    remark_type \notin REMARK_TYPES \/ Len(remark_text) > MaxRemarkText
BadIdentifier(s) == (\E i \in 1..Len(s) : ~check_char(s[i])) \/ trim(s) = <<>>

\* C5: every add_remarks call with an unregistered type or a text longer than 70
\* characters, and every set_identifier call with a disallowed character or a blank
\* text, returns the invalid-value error and leaves the Structure as it was; the
\* call does not abort.
C5_MutatorsReject ==
    [][/\ (op'.name = "add_remarks" /\ BadRemark(op'.f[1], op'.s[1]))
            => res'.kind = "InvalidValue" /\ pdb' = pdb
       /\ (op'.name = "set_identifier" /\ BadIdentifier(op'.s[1]))
            => res'.kind = "InvalidValue" /\ pdb' = pdb]_vars

\* C6: a line that starts with "ATOM  " or "HETATM" and has fewer than 54 characters
\* (6 included) decodes to an error that carries the line number.
C6_ShortAtomLineFails ==
    (/\ mode = "decoded"
     /\ Len(input[1]) >= 6
     /\ Len(input[1]) < 54
     /\ SubSeq(input[1], 1, 6) \in {TagATOM, TagHETATM})
        => res.kind = "Err" /\ res.line_number = line_no

\* the written line of atom i of pdb: the atom lines precede the final TER line
AtomLine(i) == stream[Len(stream) - 1 - Len(pdb.atoms) + i]

\* C7: the line written for an atom of charge 0 holds only spaces after the element
\* field (columns 76-77 counted from 0, the 77th and 78th characters).
C7_NoChargeDigit ==
    mode = "saved" =>
        \A i \in 1..Len(pdb.atoms) :
            pdb.atoms[i].charge = 0 =>
                \A k \in 79..Len(AtomLine(i)) : AtomLine(i)[k] = 32

\* C8: every written line has at least 70 characters, is the line handed to
\* write_line followed by spaces only, and is that line itself when it already has
\* 70 characters.
C8_PaddedTo70 ==
    mode = "saved" =>
        \A i \in 1..Len(stream) :
            /\ Len(stream[i]) >= MinLineWidth
            /\ Len(stream[i]) >= Len(raw[i])
            /\ SubSeq(stream[i], 1, Len(raw[i])) = raw[i]
            /\ \A k \in (Len(raw[i]) + 1)..Len(stream[i]) : stream[i][k] = 32
            /\ Len(raw[i]) >= MinLineWidth => stream[i] = raw[i]

\* the lines written before the atom lines
HeaderLines == IF ~atoms_only /\ pdb.identifier.some THEN 1 ELSE 0
RemarkLines == IF atoms_only THEN 0 ELSE Len(pdb.remarks)

C11_ResidueChainInvariant ==
    /\ atom.some =>
        /\ AllowedText(atom.v.res_name)
        /\ AllowedText(atom.v.chain_id)
        /\ Len(atom.v.chain_id) = 1
    /\ (/\ op.name = "new"
        /\ \/ ~AllowedText(op.s[3])
           \/ ~AllowedText(op.s[4])
           \/ Len(op.s[4]) # 1)
        => res.kind = "None"

\* what line i of the input decodes to
Item(i) == parse_line(input[i], i)

\* the lines among the first n that decode to an item of this kind, and the k-th of them
LinesOf(kind, n) == {i \in 1..n : Item(i).kind = kind}
Nth(S, k) == CHOOSE i \in S : Cardinality({j \in S : j <= i}) = k

\* the Atom that Atom::new makes of a decoded atom line
AtomOf(item) == Atom_new(item.hetero, item.serial_number, item.atom_name, item.res_name, item.chain_id, item.res_seq, item.x, item.y, item.z, item.occupancy, item.temp_factor, item.element, item.charge).v

\* read_pdb_raw has folded line_no lines without returning an error
FoldedSoFar == mode = "reading" \/ (mode = "read" /\ res.kind = "Ok")

\* C12: while all lines read so far decoded and folded, the atoms of the Structure are
\* the atoms of the ATOM/HETATM lines read so far, in line order, the remarks those of
\* the REMARK lines and the identifier that of the last HEADER line: a TER, END or
\* other line changes nothing and the lines after it are read as those before it.
C12_ScanNotStopped ==
    (FoldedSoFar /\ \A i \in 1..line_no : Item(i).kind \notin {"Err", "Panic"}) =>
        /\ Len(pdb.atoms) = Cardinality(LinesOf("Atom", line_no))
        /\ \A k \in 1..Len(pdb.atoms) :
            pdb.atoms[k] = AtomOf(Item(Nth(LinesOf("Atom", line_no), k)))
        /\ Len(pdb.remarks) = Cardinality(LinesOf("Remark", line_no))
        /\ \A k \in 1..Len(pdb.remarks) :
            /\ pdb.remarks[k][1] = Item(Nth(LinesOf("Remark", line_no), k)).remark_type
            /\ pdb.remarks[k][2] = Item(Nth(LinesOf("Remark", line_no), k)).remark_text
        /\ pdb.identifier.some = (LinesOf("Header", line_no) # {})
        /\ pdb.identifier.some =>
            pdb.identifier.v = to_ascii_uppercase(trim(
                Item(Nth(LinesOf("Header", line_no),
                         Cardinality(LinesOf("Header", line_no)))).identifier))

\* an atom line after a TER line, and one after an END line, were read into the Structure
C12_Witness ==
    /\ mode = "read" /\ res.kind = "Ok"
    /\ Len(input) = 2
    /\ Item(1).kind \in {"Ter", "End"}
    /\ Item(2).kind = "Atom"
    /\ Len(pdb.atoms) = 1

\* C13: a line of 3 to 6 characters that begins with "TER" decodes to the chain
\* terminator, one that begins with "END" to the end record, and a line of at most 2
\* characters to the ignorable record.
C13_ShortTerminators ==
    mode = "decoded" =>
        /\ (Len(input[1]) \in 3..6 /\ SubSeq(input[1], 1, 3) = TagTER) => res = ItemTer
        /\ (Len(input[1]) \in 3..6 /\ SubSeq(input[1], 1, 3) = TagEND) => res = ItemEnd
        /\ Len(input[1]) <= 2 => res = ItemEmpty

\* C14: parse_line of a line of ASCII text, of any length, returns a record or an
\* error: it does not abort on a column range that the line does not have.
C14_DecodingTotal ==
    (mode = "decoded" /\ \A k \in 1..Len(input[1]) : input[1][k] < 128)
        => res # ParsePanic

============================================================================
